---- MODULE Spec2Model ----
(***************************************************************************)
(* Audio generation pipeline of TextToSpeechProject: reservation of an    *)
(* Audio row (check_generation_allowed, create_audio_record), the         *)
(* background generate_audio_task with its automatic retries, the owner's *)
(* soft delete, the expiry sweep and the settings panel.                  *)
(*                                                                         *)
(* The database is read committed (PostgreSQL): every ORM statement sees  *)
(* the rows committed so far, Model.save() of an existing instance writes *)
(* every column of the in-memory copy, and the partial unique index       *)
(* unique_voice_per_page is checked by the database on every write.       *)
(***************************************************************************)
EXTENDS Integers, Sequences, FiniteSets, TLC

\* ------------------------------------------------------------------ bounds
NumReq == 2              \* reservation requests (generate_audio calls) in a run
MaxAudiosPerPage == 2    \* largest configured SiteSettings.max_audios_per_page
MaxEnvEvents == 1        \* failures of generate_audio, delete_audio calls, expired
                         \* rows and settings_control submissions in a run of Spec
MaxTextLen == 6          \* length of the texts given to chunk_text
MAX_CHARS_PER_REQUEST == 3   \* PollyService.MAX_CHARS_PER_REQUEST, scaled to the texts
MaxChunks == 3           \* buffers given to merge_audio_chunks, chunks of a generation
NumSettingsProcs == 2    \* processes creating SiteSettings rows
MaxSettingsId == 2       \* values taken from the SiteSettings id sequence
MaxSweepRows == 2        \* Audio rows in the table a run of check_expired_audios scans
MaxClockTicks == 2       \* half seconds the clock advances between two waits
MaxCountdowns == 1       \* one-minute waits in a run

Req == 1..NumReq
Pages == {1}               \* the page the requests of most scenarios name
AllPages == {1, 2}         \* the DocumentPage rows of the document
Voices == {"Joanna", "Matthew"}
RaceVoice == "Joanna"

\* --------------------------------------------------------- program values
max_retries == 3
BackoffBase == 60

PENDING == "PENDING"
GENERATING == "GENERATING"
COMPLETED == "COMPLETED"
FAILED == "FAILED"

ACTIVE == "ACTIVE"
DELETED == "DELETED"
EXPIRED == "EXPIRED"

VARIABLES
    db,         \* Audio table: sequence of rows, the primary key is the index
    enabled,    \* SiteSettings.audio_generation_enabled
    maxAudios,  \* SiteSettings.max_audios_per_page (N), fixed during a run
    pageLock,   \* page id -> request holding the SELECT FOR UPDATE lock, 0 if free
    req,        \* request id -> position, arguments and outcome of generate_audio
    task,       \* audio id -> state of generate_audio_task for that row
    del,        \* delete_audio call in progress (its loaded instance) or idle
    swp,        \* check_expired_audios iteration in progress or idle
    env,        \* failures, deletes, expiries and settings changes so far
    url,        \* the get_presigned_url call in progress, its calls and its answer
    chk,        \* the chunk_text call: its text and the chunks returned
    mrg,        \* the merge_audio_chunks call: its buffers and its outcome
    site,       \* the SiteSettings table, its id sequence and the calls that create rows
    gen,        \* audio id -> the generate_audio pipeline of its task: chunks, buffers, calls
    rty,        \* the retry requests (POST audio/<id>/retry/) so far and the last answer
    exp,        \* the Audio rows and the setting that a run of check_expired_audios meets
    now,        \* the wall clock, in ticks of half a second
    pages,      \* page id -> DocumentPage.markdown_content
    cfc         \* the cache of signed CloudFront URLs and the get_audio_signed_url call in progress

\* the reservation, generation and lifecycle state
core == <<db, enabled, maxAudios, pageLock, req, task, del, swp, env>>

\* the state of the service calls studied on their own
more == <<rty, exp, now, pages, cfc>>

svc == <<url, chk, mrg, site, gen, more>>

\* what a step of one service call leaves alone
butUrl == <<core, chk, mrg, site, gen, more>>
butChk == <<core, url, mrg, site, gen, more>>
butMrg == <<core, url, chk, site, gen, more>>
butSite == <<core, url, chk, mrg, gen, more>>
butGen == <<core, url, chk, mrg, site, more>>
butRty == <<enabled, maxAudios, pageLock, req, del, swp, env, url, chk, mrg, site, gen, exp, now, pages, cfc>>
butExp == <<db, enabled, maxAudios, pageLock, req, task, del, swp, env, url, chk, mrg, site, gen, rty, now, pages, cfc>>
butNow == <<db, enabled, maxAudios, pageLock, req, task, del, swp, env, url, chk, mrg, site, gen, rty, exp, pages, cfc>>
butPages == <<db, enabled, maxAudios, pageLock, req, task, del, swp, env, url, chk, mrg, site, gen, rty, exp, now, cfc>>
butCfc == <<db, enabled, maxAudios, pageLock, req, task, del, swp, env, url, chk, mrg, site, gen, rty, exp, now, pages>>

vars == <<db, enabled, maxAudios, pageLock, req, task, del, swp, env, url, chk, mrg, site, gen,
          rty, exp, now, pages, cfc>>

Idle == [id |-> 0]

\* -------------------------------------------------------------- Audio rows
\* Audio.objects.create(...) arguments and field defaults
NewAudioGenerating(p, v) ==
    [page |-> p, voice |-> v, status |-> GENERATING, lifetime_status |-> ACTIVE,
     s3_key |-> "", deleted_at |-> FALSE, error_message |-> "None"]

NewAudio(p, v) ==
    [page |-> p, voice |-> v, status |-> PENDING, lifetime_status |-> ACTIVE,
     s3_key |-> "", deleted_at |-> FALSE, error_message |-> "None"]

Ids(d) == 1..Len(d)

\* Audio.objects.filter(page=page).count()
ActiveAudiosCount(d, p) ==
    Cardinality({i \in Ids(d) : d[i].page = p /\ d[i].lifetime_status = ACTIVE})

TotalAudiosCount(d, p) == Cardinality({i \in Ids(d) : d[i].page = p})

\* Audio.objects.filter(page=, voice=, lifetime_status=ACTIVE).exclude(pk=self).exists()
ActiveVoiceIgnoringLifetime(d, p, v, self) ==
    \E i \in Ids(d) : i # self /\ d[i].page = p /\ d[i].voice = v

ActiveVoiceByStatus(d, p, v, self) ==
    \E i \in Ids(d) : /\ i # self
                      /\ d[i].page = p
                      /\ d[i].voice = v
                      /\ d[i].status = ACTIVE

ActiveVoiceExists(d, p, v, self) ==
    \E i \in Ids(d) : /\ i # self
                      /\ d[i].page = p
                      /\ d[i].voice = v
                      /\ d[i].lifetime_status = ACTIVE

\* the partial unique index unique_voice_per_page, evaluated on a table state
NoConstraint(d) == FALSE

UniqueConstraintViolated(d) ==
    \E i, j \in Ids(d) : /\ i # j
                         /\ d[i].page = d[j].page
                         /\ d[i].voice = d[j].voice
                         /\ d[i].lifetime_status = ACTIVE
                         /\ d[j].lifetime_status = ACTIVE

\* Audio.clean() of an instance that has a primary key: the quota branch is
\* skipped, the voice check runs when the in-memory copy is ACTIVE
CleanRaisesOnUpdate(d, id, mem) ==
    /\ mem.lifetime_status = ACTIVE
    /\ ActiveVoiceExists(d, mem.page, mem.voice, id)

\* Audio.save() of a loaded instance: clean(), then UPDATE of every column
SaveRaises(d, id, mem) ==
    \/ CleanRaisesOnUpdate(d, id, mem)
    \/ UniqueConstraintViolated([d EXCEPT ![id] = mem])

Saved(d, id, mem) == [d EXCEPT ![id] = mem]

\* ------------------------------------------------- check_generation_allowed
Actors == {"owner", "collaborator", "viewer", "stranger"}

\* document.user == user, else DocumentSharing.can_generate_audio()
PermissionOutcome(a) ==
    CASE a = "owner" -> "allowed"
      [] a = "collaborator" -> "allowed"
      [] a = "viewer" -> "no_permission"
      [] OTHER -> "no_access"

CheckGenerationAllowed(d, en, max, p, v, a) ==
    IF ~en THEN "disabled"
    ELSE IF TotalAudiosCount(d, p) >= max THEN "quota"
    ELSE IF ActiveVoiceExists(d, p, v, 0) THEN "duplicate"
    ELSE PermissionOutcome(a)

DuplicateVoiceErrors == {"duplicate", "duplicate_locked", "duplicate_integrity"}

NoMem == NewAudio(0, "")

NewRequest == [pc |-> "start", page |-> 0, voice |-> "",
               result |-> "none", http |-> 0, audio |-> 0]

\* generate_audio_task.delay(audio.id)
QueuedTask == [pc |-> "queued", mem |-> NoMem, retries |-> 0, exc |-> "None",
               delays |-> <<>>, eta |-> 0]

\* generate_audio with no voice_id in the body: "if not voice_id", status 400
ReqNoVoice(r, p) ==
    /\ req[r].pc = "start"
    /\ IF r = 1 THEN TRUE ELSE req[r - 1].pc # "start"
    /\ req' = [req EXCEPT ![r] = [@ EXCEPT !.pc = "done", !.page = p,
                                           !.result = "voice_required",
                                           !.http = 400]]
    /\ UNCHANGED <<db, enabled, pageLock, task, del, swp, env, maxAudios, svc>>

\* generate_audio with a voice_id, up to the answer of check_generation_allowed
ReqCheck(r, p, v, a) ==
    /\ req[r].pc = "start"
    /\ v # ""
    /\ IF r = 1 THEN TRUE ELSE req[r - 1].pc # "start"   \* numbered by arrival
    /\ LET out == CheckGenerationAllowed(db, enabled, maxAudios, p, v, a) IN
       req' = [req EXCEPT ![r] =
                 IF out = "allowed"
                 THEN [@ EXCEPT !.pc = "allowed", !.page = p, !.voice = v]
                 ELSE [@ EXCEPT !.pc = "done", !.page = p, !.voice = v,
                                !.result = out, !.http = 403]]
    /\ UNCHANGED <<db, enabled, pageLock, task, del, swp, env, maxAudios, svc>>

\* select_for_update() on the page row
NoLock(l, p) == TRUE

\* one lock for the whole table instead of one per page row
TableLockFree(l, p) == \A q \in DOMAIN l : l[q] = 0

LockFree(l, p) == l[p] = 0

\* create_audio_record: take the page lock, re-check the voice, then the
\* clean() that Audio.objects.create runs before the INSERT (quota, voice)
ReqInsertThenValidate(r) ==
    /\ req[r].pc = "allowed"
    /\ LockFree(pageLock, req[r].page)
    /\ db' = Append(db, NewAudio(req[r].page, req[r].voice))
    /\ task' = Append(task, QueuedTask)
    /\ req' = [req EXCEPT ![r].pc = "done",
                          ![r].result =
                             IF ActiveVoiceExists(db, req[r].page, req[r].voice, 0)
                             THEN "duplicate_locked"
                             ELSE IF TotalAudiosCount(db, req[r].page) >= maxAudios
                             THEN "quota_locked" ELSE "created",
                          ![r].http =
                             IF \/ ActiveVoiceExists(db, req[r].page, req[r].voice, 0)
                                \/ TotalAudiosCount(db, req[r].page) >= maxAudios
                             THEN 500 ELSE 200,
                          ![r].audio = Len(db) + 1]
    /\ UNCHANGED <<enabled, pageLock, del, swp, env, maxAudios, svc>>

ReqLockAndValidate(r) ==
    /\ req[r].pc = "allowed"
    /\ LockFree(pageLock, req[r].page)
    /\ LET p == req[r].page
           v == req[r].voice IN
       IF ActiveVoiceExists(db, p, v, 0)
       THEN /\ req' = [req EXCEPT ![r].pc = "done",
                                  ![r].result = "duplicate_locked",
                                  ![r].http = 500]
            /\ UNCHANGED pageLock
       ELSE IF TotalAudiosCount(db, p) >= maxAudios
       THEN /\ req' = [req EXCEPT ![r].pc = "done",
                                  ![r].result = "quota_locked",
                                  ![r].http = 500]
            /\ UNCHANGED pageLock
       ELSE /\ req' = [req EXCEPT ![r].pc = "validated"]
            /\ pageLock' = [pageLock EXCEPT ![p] = r]
    /\ UNCHANGED <<db, enabled, task, del, swp, env, maxAudios, svc>>

\* create_audio_record: the INSERT, the commit that releases the lock, and
\* generate_audio's dispatch of the task for the new row
ReqInsert(r) ==
    /\ req[r].pc = "validated"
    /\ LET p == req[r].page
           d2 == Append(db, NewAudio(p, req[r].voice)) IN
       IF UniqueConstraintViolated(d2)
       THEN /\ req' = [req EXCEPT ![r].pc = "done",
                                  ![r].result = "duplicate_integrity",
                                  ![r].http = 500]
            /\ UNCHANGED <<db, task>>
       ELSE /\ db' = d2
            /\ task' = Append(task, QueuedTask)
            /\ req' = [req EXCEPT ![r].pc = "done", ![r].result = "created",
                                  ![r].http = 200, ![r].audio = Len(d2)]
    /\ pageLock' = [pageLock EXCEPT ![req[r].page] = 0]
    /\ UNCHANGED <<enabled, del, swp, env, maxAudios, svc>>

\* settings_control: the staff panel rewrites audio_generation_enabled
\* (max_audios_per_page is resubmitted with its configured value)
SettingsControl(en) ==
    /\ enabled # en
    /\ env < MaxEnvEvents
    /\ env' = env + 1
    /\ enabled' = en
    /\ UNCHANGED <<db, pageLock, req, task, del, swp, maxAudios, svc>>

\* ------------------------------------------------------ PollyService errors
\* text of the exception the failing library call raised (never fixed)
RawExceptionText == "CouldntDecodeError: ffmpeg returned error code 1: /tmp/tmpk3x9.mp3"

\* how generate_audio can fail: the Polly error codes of synthesize_speech,
\* a decode error in merge_audio_chunks, an S3 error in upload_to_s3
FailureKinds == {"ThrottlingException", "InvalidParameterValue", "AccessDenied",
                 "MergeDecode"}

\* str(e) of the AudioGenerationError that reaches generate_audio_task
ErrorText(kind) ==
    CASE kind = "ThrottlingException" ->
           "AWS service is busy. Please try again in a moment."
      [] kind = "InvalidParameterValue" ->
           "Invalid voice or text format. Please try a different voice."
      [] kind = "ServiceUnavailable" ->
           "Audio service is temporarily unavailable. Please try again later."
      [] kind = "AccessDenied" ->
           "System error: AWS access issue. Please contact support."
      [] kind = "ConnectionError" ->
           "Network error connecting to audio service. Please try again."
      [] kind = "NoCredentialsError" ->
           "System configuration error. Please contact support."
      [] kind = "MergeDecode" ->
           "Failed to merge audio chunks: " \o RawExceptionText
      [] kind = "UploadError" ->
           "Failed to save audio file. Please try again later."
      [] kind = "ValidationError" ->
           "['Voice is already used for this page.']"
      [] kind = "InvalidVoice" -> "Invalid voice: Bogus"
      [] kind = "EmptyText" -> "Text cannot be empty"
      [] OTHER -> "Audio generation failed. Please try again later."

\* the messages written as literals in services.py
UserSafeMessages ==
    {"AWS service is busy. Please try again in a moment.",
     "Invalid voice or text format. Please try a different voice.",
     "Audio service is temporarily unavailable. Please try again later.",
     "System error: AWS access issue. Please contact support.",
     "Audio generation failed. Please try again later.",
     "Network error connecting to audio service. Please try again.",
     "System configuration error. Please contact support.",
     "An unexpected error occurred. Please try again later.",
     "No audio stream in Polly response",
     "Failed to save audio file. Please try again later.",
     "System error: Storage bucket not configured. Contact support.",
     "System error: Cannot access storage. Contact support.",
     "Network error accessing storage. Please try again.",
     "An unexpected error occurred while saving audio. Try again later.",
     "Text cannot be empty"}

\* the clock counts half seconds
TicksPerSecond == 2

\* datetime.now().strftime("%Y%m%d_%H%M%S"): the time cut to the whole second
Strftime(t) == ToString(t \div TicksPerSecond)

\* generate_s3_key(document_id, page_number, voice_id), called at time t
GenerateS3Key(p, v, t) ==
    "audios/document_1/page_" \o ToString(p) \o "/voice_" \o v \o "_"
      \o Strftime(t) \o ".mp3"

\* ------------------------------------------------------- generate_audio_task
\* countdown=60 * (2**self.request.retries)
ConstantCountdown(k) == BackoffBase

Countdown(k) == BackoffBase * (2 ^ k)

\* audio = Audio.objects.get(id=audio_id)
TaskLoad(id) ==
    /\ task[id].pc = "queued"
    /\ task' = [task EXCEPT ![id].pc = "loaded", ![id].mem = db[id]]
    /\ UNCHANGED <<db, enabled, pageLock, req, del, swp, env, maxAudios, svc>>

\* audio.status = GENERATING; audio.save()
TaskSaveGenerating(id) ==
    /\ task[id].pc = "loaded"
    /\ LET mem == [task[id].mem EXCEPT !.status = GENERATING] IN
       IF SaveRaises(db, id, mem)
       THEN /\ task' = [task EXCEPT ![id].pc = "failloaded", ![id].mem = db[id],
                                    ![id].exc = "ValidationError"]
            /\ UNCHANGED db
       ELSE /\ db' = Saved(db, id, mem)
            /\ task' = [task EXCEPT ![id].pc = "generating", ![id].mem = mem]
    /\ UNCHANGED <<enabled, pageLock, req, del, swp, env, maxAudios, svc>>

\* generate_audio returned s3_key: audio.s3_key = s3_key; status = COMPLETED;
\* audio.save() of the instance loaded before the generation
TaskSaveCompleted(id, s3_key) ==
    /\ task[id].pc = "generating"
    /\ LET mem == [task[id].mem EXCEPT !.s3_key = s3_key, !.status = COMPLETED] IN
       IF SaveRaises(db, id, mem)
       THEN /\ task' = [task EXCEPT ![id].pc = "failloaded", ![id].mem = db[id],
                                    ![id].exc = "ValidationError"]
            /\ UNCHANGED db
       ELSE /\ db' = Saved(db, id, mem)
            /\ task' = [task EXCEPT ![id].pc = "done", ![id].mem = NoMem]
    /\ UNCHANGED <<enabled, pageLock, req, del, swp, env, maxAudios, svc>>

\* the whole of generate_audio succeeding at once, then the save
TaskGenerateOk(id) ==
    TaskSaveCompleted(id, GenerateS3Key(task[id].mem.page, task[id].mem.voice, now))

\* generate_audio raised: control enters "except Exception as e", whose
\* first statement is audio = Audio.objects.get(id=audio_id)
TaskGenerateFail(id, kind, limit) ==
    /\ task[id].pc = "generating"
    /\ env < limit
    /\ env' = env + 1
    /\ task' = [task EXCEPT ![id].pc = "failloaded", ![id].mem = db[id],
                            ![id].exc = kind]
    /\ UNCHANGED <<db, enabled, pageLock, req, del, swp, maxAudios, svc>>

\* the handler's status = FAILED; error_message = str(e); audio.save(), then
\* self.retry(countdown=...) while request.retries < max_retries. A save that
\* raises inside the handler leaves the task with an unhandled exception.
TaskFailSave(id) ==
    /\ task[id].pc = "failloaded"
    /\ LET t == task[id]
           mem == [t.mem EXCEPT !.status = FAILED,
                                !.error_message = ErrorText(t.exc)] IN
       IF SaveRaises(db, id, mem)
       THEN /\ task' = [task EXCEPT ![id].pc = "crashed", ![id].mem = NoMem,
                                    ![id].exc = "None"]
            /\ UNCHANGED db
       ELSE /\ db' = Saved(db, id, mem)
            /\ task' = [task EXCEPT ![id] =
                 IF t.retries < max_retries
                 THEN [@ EXCEPT !.pc = "queued", !.mem = NoMem, !.exc = "None",
                                !.retries = t.retries + 1,
                                !.delays = Append(t.delays, Countdown(t.retries)),
                                !.eta = now + Countdown(t.retries) * TicksPerSecond]
                 ELSE [@ EXCEPT !.pc = "done", !.mem = NoMem, !.exc = "None"]]
    /\ UNCHANGED <<enabled, pageLock, req, del, swp, env, maxAudios, svc>>

\* ------------------------------------------------------------- delete_audio
\* audio = get_object_or_404(Audio, id=audio_id), by the document owner
DeleteLoad(id) ==
    /\ del = Idle
    /\ env < MaxEnvEvents
    /\ env' = env + 1
    /\ del' = [id |-> id, mem |-> db[id]]
    /\ UNCHANGED <<db, enabled, pageLock, req, task, swp, maxAudios, svc>>

\* lifetime_status = DELETED; deleted_at = now; audio.save()
DeleteSave ==
    /\ del # Idle
    /\ db' = Saved(db, del.id, [del.mem EXCEPT !.lifetime_status = DELETED,
                                               !.deleted_at = TRUE])
    /\ del' = Idle
    /\ UNCHANGED <<enabled, pageLock, req, task, swp, env, maxAudios, svc>>

\* ----------------------------------------------------- check_expired_audios
\* one row of the queryset filter(lifetime_status=ACTIVE, status=COMPLETED)
\* for which is_expired() answers True
SweepLoad(id) ==
    /\ swp = Idle
    /\ db[id].lifetime_status = ACTIVE
    /\ db[id].status = COMPLETED
    /\ env < MaxEnvEvents
    /\ env' = env + 1
    /\ swp' = [id |-> id, mem |-> db[id]]
    /\ UNCHANGED <<db, enabled, pageLock, req, task, del, maxAudios, svc>>

\* lifetime_status = EXPIRED; deleted_at = now; audio.save()
SweepSave ==
    /\ swp # Idle
    /\ db' = Saved(db, swp.id, [swp.mem EXCEPT !.lifetime_status = EXPIRED,
                                               !.deleted_at = TRUE])
    /\ swp' = Idle
    /\ UNCHANGED <<enabled, pageLock, req, task, del, env, maxAudios, svc>>

\* -------------------------------------------------------- get_presigned_url
\* settings.AUDIO_PRESIGNED_URL_EXPIRATION_SECONDS
AUDIO_PRESIGNED_URL_EXPIRATION_SECONDS == 3600

\* expiration=None of the signature
NoExpiration == 0

\* the expiration arguments of the callers, in seconds
Expirations == {NoExpiration, 60, 300, 3600, 7200}

\* the s3_key of the Audio instance passed in: empty until generation succeeds
UrlKeys == {""} \cup {GenerateS3Key(p, v, 0) : p \in Pages, v \in Voices}

\* the outcome of a call: the exception class it raised or the value returned
Raise(e) == [raised |-> e, value |-> "None"]

Return(v) == [raised |-> "None", value |-> v]

NoResult == [raised |-> "None", value |-> "not called"]

\* signer.generate_presigned_url(url, date_less_than=expires)
CloudFrontUrl(key, expires) ==
    "https://cdn.example.com/" \o key \o "?Expires=now+" \o ToString(expires)
      \o "&Signature=rsa-sha1&Key-Pair-Id=K"

\* s3_client.generate_presigned_url("get_object", Params, ExpiresIn)
S3Url(key, expires) ==
    "https://bucket.s3.amazonaws.com/" \o key \o "?X-Amz-Expires="
      \o ToString(expires) \o "&X-Amz-Signature=hmac"

\* what the CloudFront tier meets: the module cannot be imported, the
\* settings are incomplete, the cache backend is down, the cache holds the
\* URL, the signer fails, the signer signs
CloudFrontConditions == {"import_error", "config_incomplete", "cache_down",
                         "cache_hit", "sign_fail", "sign_ok"}

\* get_audio_signed_url: every exception leaves as CloudFrontSigningError
GetAudioSignedUrl(key, expires, cf) ==
    IF cf = "config_incomplete" THEN Raise("CloudFrontSigningError")
    ELSE IF cf = "cache_down" THEN Raise("CloudFrontSigningError")
    ELSE IF cf = "cache_hit" THEN Return(CloudFrontUrl(key, expires))
    ELSE IF key = "" THEN Raise("CloudFrontSigningError")
    ELSE IF cf = "sign_fail" THEN Raise("CloudFrontSigningError")
    ELSE Return(CloudFrontUrl(key, expires))

\* the import of core.cloudfront_utils, then return get_audio_signed_url(...)
CloudFrontStep(key, expires, cf) ==
    IF cf = "import_error" THEN Raise("ImportError")
    ELSE GetAudioSignedUrl(key, expires, cf)

\* except CloudFrontSigningError
CatchesNothing(e) == FALSE

CatchesSigningError(e) == e = "CloudFrontSigningError"

\* except Exception
ExceptionClasses == {"CloudFrontSigningError", "ImportError", "ClientError",
                     "ParamValidationError"}

CatchesOnlyClientError(e) == e = "ClientError"

CatchesException(e) == e \in ExceptionClasses

\* what boto's generate_presigned_url does: an empty Key is refused
S3Presign(key, expires, s3) ==
    IF key = "" THEN Raise("ParamValidationError")
    ELSE IF s3 = "error" THEN Raise("ClientError")
    ELSE Return(S3Url(key, expires))

\* _get_s3_presigned_url: the URL, or None when the client raised
GetS3PresignedUrl(key, expires, s3) ==
    LET r == S3Presign(key, expires, s3) IN
    IF r.raised # "None" /\ CatchesException(r.raised) THEN Return("None") ELSE r

NoUrlCall == [pc |-> "idle", key |-> "", arg |-> NoExpiration, expiration |-> 0,
              cloudfront |-> <<>>, cf_result |-> NoResult,
              s3 |-> <<>>, s3_result |-> NoResult, result |-> NoResult]

\* how get_presigned_url ends with the outcome r of its try block:
\* "except Exception: return None"
UrlEnd(u, r) ==
    IF r.raised = "None"
    THEN [u EXCEPT !.pc = "returned", !.result = r]
    ELSE IF CatchesException(r.raised)
    THEN [u EXCEPT !.pc = "returned", !.result = Return("None")]
    ELSE [u EXCEPT !.pc = "raised", !.result = r]

\* get_presigned_url(audio, expiration): the default of the expiration
GetPresignedUrl(key, arg) ==
    /\ url.pc = "idle"
    /\ url' = [url EXCEPT !.pc = "cloudfront", !.key = key, !.arg = arg,
                          !.expiration =
                              IF arg = NoExpiration
                              THEN AUDIO_PRESIGNED_URL_EXPIRATION_SECONDS
                              ELSE arg]
    /\ UNCHANGED butUrl

\* the inner try: return get_audio_signed_url(audio, expiration_seconds=...)
UrlCloudFront(cf) ==
    /\ url.pc = "cloudfront"
    /\ LET r == CloudFrontStep(url.key, url.expiration, cf)
           u == [url EXCEPT !.cf_result = r,
                            !.cloudfront = Append(@, [key |-> url.key,
                                                      expires |-> url.expiration])]
       IN url' = IF r.raised # "None" /\ CatchesSigningError(r.raised)
                 THEN [u EXCEPT !.pc = "s3"]
                 ELSE UrlEnd(u, r)
    /\ UNCHANGED butUrl

\* the handler: return self._get_s3_presigned_url(audio, expiration)
UrlS3(s3) ==
    /\ url.pc = "s3"
    /\ LET r == GetS3PresignedUrl(url.key, url.expiration, s3)
           u == [url EXCEPT !.s3_result = S3Presign(url.key, url.expiration, s3),
                            !.s3 = Append(@, [key |-> url.key,
                                              expires |-> url.expiration])]
       IN url' = UrlEnd(u, r)
    /\ UNCHANGED butUrl

\* --------------------------------------------------- PollyService.chunk_text
\* Texts are sequences of characters. MAX_CHARS_PER_REQUEST is Polly's limit
\* (settings.POLLY_MAX_CHARS_PER_REQUEST) on the scale of the texts below.
Chars == {"a", "b", " ", ".", "!"}

Texts == UNION {[1..n -> Chars] : n \in 0..MaxTextLen}

Whitespace == {" "}

\* text.replace("!", ".").replace("?", ".")
ReplaceTerminators(t) ==
    [i \in 1..Len(t) |-> IF t[i] \in {"!", "?"} THEN "." ELSE t[i]]

\* str.split("."): the pieces between the separators, empty ones included
RECURSIVE SplitFrom(_, _, _)
SplitFrom(t, i, piece) ==
    IF i > Len(t) THEN <<piece>>
    ELSE IF t[i] = "." THEN <<piece>> \o SplitFrom(t, i + 1, <<>>)
    ELSE SplitFrom(t, i + 1, Append(piece, t[i]))

SplitOnPeriod(t) == SplitFrom(t, 1, <<>>)

\* str.strip()
RECURSIVE LStrip(_)
LStrip(t) ==
    IF t # <<>> /\ Head(t) \in Whitespace THEN LStrip(Tail(t)) ELSE t

RECURSIVE RStrip(_)
RStrip(t) ==
    IF t # <<>> /\ t[Len(t)] \in Whitespace
    THEN RStrip(SubSeq(t, 1, Len(t) - 1)) ELSE t

Strip(t) == RStrip(LStrip(t))

\* str.split(): the runs of characters between runs of whitespace
RECURSIVE WordsFrom(_, _, _)
WordsFrom(t, i, word) ==
    IF i > Len(t) THEN (IF word = <<>> THEN <<>> ELSE <<word>>)
    ELSE IF t[i] \in Whitespace
    THEN (IF word = <<>> THEN <<>> ELSE <<word>>) \o WordsFrom(t, i + 1, <<>>)
    ELSE WordsFrom(t, i + 1, Append(word, t[i]))

SplitWords(t) == WordsFrom(t, 1, <<>>)

\* the loop "for word in words" of a sentence longer than the limit, followed
\* by "if temp_chunk: chunks.append(temp_chunk.strip())"
RECURSIVE PackWords(_, _, _, _)
PackWords(words, i, temp_chunk, chunks) ==
    IF i > Len(words)
    THEN (IF temp_chunk # <<>> THEN Append(chunks, Strip(temp_chunk)) ELSE chunks)
    ELSE LET word == words[i] IN
         IF Len(temp_chunk) + Len(word) + 1 <= MAX_CHARS_PER_REQUEST
         THEN PackWords(words, i + 1, temp_chunk \o word \o <<" ">>, chunks)
         ELSE PackWords(words, i + 1, word \o <<" ">>,
                        IF temp_chunk # <<>>
                        THEN Append(chunks, Strip(temp_chunk)) ELSE chunks)

\* the loop "for sentence in sentences", followed by
\* "if current_chunk: chunks.append(current_chunk.strip())"
RECURSIVE PackSentences(_, _, _, _)
PackSentences(sentences, i, current_chunk, chunks) ==
    IF i > Len(sentences)
    THEN (IF current_chunk # <<>>
          THEN Append(chunks, Strip(current_chunk)) ELSE chunks)
    ELSE LET sentence == Strip(sentences[i]) IN
         IF sentence = <<>>
         THEN PackSentences(sentences, i + 1, current_chunk, chunks)
         ELSE IF Len(sentence) > MAX_CHARS_PER_REQUEST
         THEN PackSentences(sentences, i + 1, current_chunk,
                            PackWords(SplitWords(sentence), 1, <<>>, chunks))
         ELSE IF Len(current_chunk) + Len(sentence) + 2 <= MAX_CHARS_PER_REQUEST
         THEN PackSentences(sentences, i + 1,
                            current_chunk \o sentence \o <<".", " ">>, chunks)
         ELSE PackSentences(sentences, i + 1, sentence \o <<".", " ">>,
                            IF current_chunk # <<>>
                            THEN Append(chunks, Strip(current_chunk))
                            ELSE chunks)

\* chunk_text(text)
chunk_text(text) ==
    IF Len(text) <= MAX_CHARS_PER_REQUEST THEN <<text>>
    ELSE LET chunks == PackSentences(SplitOnPeriod(ReplaceTerminators(text)),
                                     1, <<>>, <<>>) IN
         IF chunks # <<>> THEN chunks
         ELSE <<SubSeq(text, 1, MAX_CHARS_PER_REQUEST)>>

NoChunkCall == [pc |-> "idle", text |-> <<>>, chunks |-> <<>>]

\* a caller applies chunk_text to its text
CallChunkText ==
    /\ chk.pc = "called"
    /\ chk' = [chk EXCEPT !.pc = "returned", !.chunks = chunk_text(chk.text)]
    /\ UNCHANGED butChk

\* ------------------------------------------- PollyService.merge_audio_chunks
\* An MP3 buffer: who encoded it and the audio it holds. Polly's AudioStream
\* is Polly's encoding; a buffer that is not MP3 data cannot be decoded.
Samples == {<<1>>, <<2>>}

Buffers == {[encoder |-> "polly", samples |-> x] : x \in Samples}
             \cup {[encoder |-> "corrupt", samples |-> <<>>]}

NoBuffer == [encoder |-> "none", samples |-> <<>>]

MergeRaise(msg) ==
    [raised |-> "AudioGenerationError", message |-> msg, value |-> NoBuffer]

MergeReturn(b) == [raised |-> "None", message |-> "", value |-> b]

\* AudioSegment.from_mp3(BytesIO(chunk)) of every chunk, combined += chunk
RECURSIVE Combined(_)
Combined(chunks) ==
    IF chunks = <<>> THEN <<>> ELSE Head(chunks).samples \o Combined(Tail(chunks))

\* combined.export(output, format="mp3", bitrate="128k"); output.read()
Export(samples) == [encoder |-> "pydub 128k", samples |-> samples]

\* merge_audio_chunks(audio_chunks)
ReencodeAll(audio_chunks) ==
    IF \E i \in 1..Len(audio_chunks) : audio_chunks[i].encoder = "corrupt"
    THEN MergeRaise("Failed to merge audio chunks: " \o RawExceptionText)
    ELSE MergeReturn(Export(Combined(audio_chunks)))

merge_audio_chunks(audio_chunks) ==
    IF audio_chunks = <<>> THEN MergeRaise("No audio chunks to merge")
    ELSE IF Len(audio_chunks) = 1 THEN MergeReturn(audio_chunks[1])
    ELSE IF \E i \in 1..Len(audio_chunks) : audio_chunks[i].encoder = "corrupt"
    THEN MergeRaise("Failed to merge audio chunks: " \o RawExceptionText)
    ELSE MergeReturn(Export(Combined(audio_chunks)))

NoMergeCall == [pc |-> "idle", audio_chunks |-> <<>>, result |-> MergeReturn(NoBuffer)]

\* a caller applies merge_audio_chunks to its buffers
CallMergeAudioChunks ==
    /\ mrg.pc = "called"
    /\ mrg' = [mrg EXCEPT !.pc = "returned",
                          !.result = merge_audio_chunks(mrg.audio_chunks)]
    /\ UNCHANGED butMrg

\* ------------------------------------------------------------ SiteSettings
\* processes that create settings: admin add forms, shells, get_settings callers
SettingsProcs == 1..NumSettingsProcs

NoSiteCall == [pc |-> "idle", result |-> "none"]

\* no row yet, the id sequence at its first value
NoSiteSettings == [rows |-> {}, nextval |-> 1,
                   proc |-> [p \in SettingsProcs |-> NoSiteCall]]

\* SiteSettings(...).save() of a new instance, up to the call of super().save():
\* "if not self.pk and SiteSettings.objects.exists(): raise ValidationError"
SiteSaveCheck(p) ==
    /\ site.proc[p].pc = "idle"
    /\ site' = [site EXCEPT
         !.proc[p] = IF site.rows # {}
                      THEN [pc |-> "idle", result |-> "ValidationError"]
                      ELSE [pc |-> "insert", result |-> "none"]]
    /\ UNCHANGED butSite

\* super().save(): the INSERT takes the next id of the sequence, also when the
\* database then refuses the row (a value a column constraint rejects)
SiteSaveInsert(p, valid) ==
    /\ site.proc[p].pc = "insert"
    /\ site.nextval <= MaxSettingsId
    /\ LET pk == site.nextval IN
       site' = [site EXCEPT
         !.nextval = pk + 1,
         !.rows = IF valid /\ pk \notin site.rows THEN @ \cup {pk} ELSE @,
         !.proc[p] = [pc |-> "idle",
                      result |-> IF valid /\ pk \notin site.rows
                                 THEN "saved" ELSE "IntegrityError"]]
    /\ UNCHANGED butSite

\* get_settings: the SELECT of get_or_create(pk=1, defaults=...)
SiteGetSettings(p) ==
    /\ site.proc[p].pc = "idle"
    /\ site' = [site EXCEPT
         !.proc[p] = IF 1 \in site.rows
                      THEN [pc |-> "idle", result |-> "got"]
                      ELSE [pc |-> "create", result |-> "none"]]
    /\ UNCHANGED butSite

\* get_settings: the create of get_or_create. The instance has pk=1, so
\* save() skips its exists() test; a duplicate key makes get_or_create
\* return the row that is there
SiteGetSettingsCreate(p) ==
    /\ site.proc[p].pc = "create"
    /\ site' = [site EXCEPT
         !.rows = @ \cup {1},
         !.proc[p] = [pc |-> "idle",
                      result |-> IF 1 \in site.rows THEN "got" ELSE "created"]]
    /\ UNCHANGED butSite

\* ------------------------------------------------ PollyService.generate_audio
\* page.markdown_content of the pages being read aloud
PageTexts == {<<"a">>, <<"a", ".", "b", "b">>, <<"a", "a", " ", "b", "b", " ", "a">>}

\* a call of an external service: Polly's synthesize_speech for chunk i,
\* pydub's merge of the buffers of the listed chunks, S3's put_object
SynthesizeCall(i) == [op |-> "synthesize_speech", chunks |-> <<i>>, key |-> ""]

MergeCall(buffers) ==
    [op |-> "merge_audio_chunks", chunks |-> Combined(buffers), key |-> ""]

UploadCall(body, key) == [op |-> "upload_to_s3", chunks |-> body.samples, key |-> key]

\* synthesize_speech(chunk, voice_id): the AudioStream Polly returns for chunk i
SynthesizeSpeech(i) == [encoder |-> "polly", samples |-> <<i>>]

\* s3_keys: the keys generate_s3_key gave to the attempts made for the row
NoPipeline == [pc |-> "idle", attempt |-> 0, text_chunks |-> <<>>,
               audio_chunks |-> <<>>, final_audio |-> NoBuffer, calls |-> <<>>,
               s3_key |-> "", s3_keys |-> <<>>]

\* the TTSVoice enumeration
TTSVoice == {"Ivy", "Joanna", "Joey", "Justin", "Kendra", "Kimberly", "Matthew",
             "Salli"}

\* a voice_id a client can send that is no TTSVoice
InvalidVoices == {"Bogus"}

\* "not text or not text.strip()"
IsBlank(text) == text = <<>> \/ Strip(text) = <<>>

\* the validation at the head of generate_audio: the error it raises, if any
GenerateAudioRejects(voice_id, text) ==
    IF voice_id \notin TTSVoice THEN "InvalidVoice"
    ELSE IF IsBlank(text) THEN "EmptyText"
    ELSE "None"

\* generate_audio of the task's current attempt raises at its validation,
\* outside the try block: the task's handler receives the error
GenInvalid(id, text) ==
    /\ task[id].pc = "generating"
    /\ gen[id].attempt # task[id].retries + 1
    /\ GenerateAudioRejects(task[id].mem.voice, text) # "None"
    /\ gen' = [gen EXCEPT ![id] =
                 [NoPipeline EXCEPT !.pc = "rejected",
                                    !.attempt = task[id].retries + 1,
                                    !.s3_keys = gen[id].s3_keys]]
    /\ task' = [task EXCEPT ![id].pc = "failloaded", ![id].mem = db[id],
                            ![id].exc = GenerateAudioRejects(task[id].mem.voice, text)]
    /\ UNCHANGED <<db, enabled, pageLock, req, del, swp, env, maxAudios,
                   url, chk, mrg, site, more>>

\* generate_audio of the task's current attempt: text_chunks = chunk_text(text)
GenChunk(id, text) ==
    /\ task[id].pc = "generating"
    /\ gen[id].attempt # task[id].retries + 1
    /\ GenerateAudioRejects(task[id].mem.voice, text) = "None"
    /\ gen' = [gen EXCEPT ![id] =
                 [NoPipeline EXCEPT !.pc = "synthesize",
                                    !.attempt = task[id].retries + 1,
                                    !.text_chunks = chunk_text(text),
                                    !.s3_keys = gen[id].s3_keys]]
    /\ UNCHANGED butGen

\* one round of "for i, chunk in enumerate(text_chunks)"; after the last one
\* "final_audio = audio_chunks[0]" when there is a single buffer
GenSynthesize(id) ==
    /\ gen[id].pc = "synthesize"
    /\ LET g == gen[id]
           i == Len(g.audio_chunks) + 1
           bufs == Append(g.audio_chunks, SynthesizeSpeech(i)) IN
       gen' = [gen EXCEPT ![id] =
                 [g EXCEPT !.audio_chunks = bufs,
                           !.calls = Append(@, SynthesizeCall(i)),
                           !.pc = IF i < Len(g.text_chunks) THEN "synthesize"
                                  ELSE IF Len(bufs) > 1 THEN "merge"
                                  ELSE "upload",
                           !.final_audio = IF i = Len(g.text_chunks) /\ Len(bufs) = 1
                                           THEN bufs[1] ELSE @]]
    /\ UNCHANGED butGen

\* final_audio = self.merge_audio_chunks(audio_chunks)
GenMerge(id) ==
    /\ gen[id].pc = "merge"
    /\ LET g == gen[id] IN
       gen' = [gen EXCEPT ![id] =
                 [g EXCEPT !.final_audio = merge_audio_chunks(g.audio_chunks).value,
                           !.calls = Append(@, MergeCall(g.audio_chunks)),
                           !.pc = "upload"]]
    /\ UNCHANGED butGen

\* s3_key = generate_s3_key(...); upload_to_s3(final_audio, s3_key)
GenUpload(id) ==
    /\ gen[id].pc = "upload"
    /\ LET g == gen[id]
           s3_key == GenerateS3Key(task[id].mem.page, task[id].mem.voice, now) IN
       gen' = [gen EXCEPT ![id] =
                 [g EXCEPT !.calls = Append(@, UploadCall(g.final_audio, s3_key)),
                           !.s3_key = s3_key,
                           !.s3_keys = Append(@, s3_key),
                           !.pc = "uploaded"]]
    /\ UNCHANGED butGen

\* generate_audio returns the key to the task, which saves COMPLETED
GenReturn(id) ==
    /\ gen[id].pc = "uploaded"
    /\ gen[id].attempt = task[id].retries + 1
    /\ TaskSaveCompleted(id, gen[id].s3_key)

\* ------------------------------------------------- speech_processing/urls.py
\* the routes of urlpatterns, by the path each one matches
urlpatterns ==
    {"generate/<int:page_id>/", "audio/<int:audio_id>/status/",
     "audio/<int:audio_id>/download/", "audio/<int:audio_id>/play/",
     "audio/<int:audio_id>/delete/", "page/<int:page_id>/audios/",
     "share/<int:document_id>/", "unshare/<int:sharing_id>/",
     "document/<int:document_id>/shares/", "shared-with-me/",
     "share/<int:sharing_id>/permission/"}

\* the URL resolver: the status a request gets before any view runs
Resolve(path) == IF path \in urlpatterns THEN 200 ELSE 404

NoRetry == [n |-> 0, id |-> 0, http |-> 0]

\* POST /speech/audio/<audio_id>/retry/ by the owner: no route matches the
\* path and no view handles it, so the resolver answers and no row is read
RetryAudio(id) ==
    /\ rty.n < MaxEnvEvents
    /\ Resolve("audio/<int:audio_id>/retry/") = 404
    /\ rty' = [n |-> rty.n + 1, id |-> id, http |-> 404]
    /\ UNCHANGED <<db, task, butRty>>

\* ------------------------------------------ check_expired_audios, as a whole
\* SiteSettings.audio_retention_months, in months of 30 days
audio_retention_months == 6

\* timezone.now() of the run, in days since the oldest row was created
SweepNow == 240

\* last_played_at of a row that was never played
NoDate == 0 - 1

\* created_at and last_played_at of the rows: seven months ago, one month ago
SweepDates ==
    {[created_at |-> c, last_played_at |-> l] :
        c \in {30, 210}, l \in {NoDate, 30, 210}} \
    {[created_at |-> 210, last_played_at |-> 30]}

\* the rows the run can meet
SweepRows ==
    {[status |-> s, lifetime_status |-> l, created_at |-> d.created_at,
      last_played_at |-> d.last_played_at, deleted_at |-> l # ACTIVE] :
        s \in {PENDING, GENERATING, COMPLETED, FAILED},
        l \in {ACTIVE, DELETED, EXPIRED}, d \in SweepDates}

\* Audio.is_expired(): reference_date < now - timedelta(days=retention_days)
IsExpired(row, t) ==
    LET retention_days == audio_retention_months * 30
        reference_date == IF row.last_played_at # NoDate
                          THEN row.last_played_at ELSE row.created_at IN
    reference_date < t - retention_days

\* filter(lifetime_status=ACTIVE, status=COMPLETED)
InSweepQueryset(row) ==
    row.lifetime_status = ACTIVE /\ row.status = COMPLETED

NoSweep == [pc |-> "idle", auto_delete_expired_enabled |-> TRUE, rows |-> <<>>,
            s3_deleted |-> {}, errors |-> 0]

\* check_expired_audios(): for every row of the queryset that is_expired(),
\* delete_object (a failure is logged and counted), then lifetime_status =
\* EXPIRED, deleted_at = now, save(). The settings are only read by
\* is_expired(), for the retention.
CheckExpiredAudios(s3) ==
    /\ exp.pc = "scheduled"
    /\ LET hit == {i \in 1..Len(exp.rows) :
                     InSweepQueryset(exp.rows[i]) /\ IsExpired(exp.rows[i], SweepNow)} IN
       exp' = [exp EXCEPT
                 !.pc = "done",
                 !.rows = [i \in 1..Len(exp.rows) |->
                             IF i \in hit
                             THEN [exp.rows[i] EXCEPT !.lifetime_status = EXPIRED,
                                                      !.deleted_at = TRUE]
                             ELSE exp.rows[i]],
                 !.s3_deleted = IF s3 = "ok" THEN hit ELSE {},
                 !.errors = IF s3 = "ok" THEN 0 ELSE Cardinality(hit)]
    /\ UNCHANGED butExp

\* ------------------------------------------------------------- audio_status
\* Audio.get_s3_url()
GetS3Url(key) ==
    IF key # "" THEN "https://bucket.s3.amazonaws.com/" \o key ELSE "None"

\* GET /speech/audio/<audio_id>/status/ by a user with access: the fields of
\* the row as they are stored at that moment
AudioStatus(d, id) ==
    [status |-> d[id].status,
     lifetime_status |-> d[id].lifetime_status,
     voice |-> d[id].voice,
     error_message |-> d[id].error_message,
     s3_url |-> IF d[id].status = COMPLETED THEN GetS3Url(d[id].s3_key) ELSE "None"]

\* ------------------------------------------------------------ the clock
\* half a second passes
Tick ==
    /\ now % (BackoffBase * TicksPerSecond) < MaxClockTicks
    /\ now' = now + 1
    /\ UNCHANGED butNow

\* a minute passes: the shortest countdown of a retry
Wait ==
    /\ now \div (BackoffBase * TicksPerSecond) < MaxCountdowns
    /\ now' = now + BackoffBase * TicksPerSecond
    /\ UNCHANGED butNow

\* the worker starts a retry only when its countdown has elapsed
CountdownElapsed(id) == now >= task[id].eta

\* --------------------------------------- get_audio_signed_url and its cache
\* the expiration_seconds the callers pass, in seconds
CacheTtls == {30, 60, 61, 120}

\* "cache_timeout = expiration_seconds - 60"
CacheTimeoutPlusMargin(expiration_seconds) == expiration_seconds + 60

CacheTimeout(expiration_seconds) == expiration_seconds - 60

\* a cache slot: the URL stored, the expiry embedded in it, when it was stored
\* and until when the cache keeps it
NoEntry == [url |-> "", expires |-> 0, set_at |-> 0, kept_until |-> 0]

\* cache.set(key, value, timeout) at time t: a timeout of zero or less stores
\* nothing that can be read back
CacheSet(entries, key, value, expires, timeout, t) ==
    [entries EXCEPT ![key] =
        IF timeout <= 0 THEN NoEntry
        ELSE [url |-> value, expires |-> expires, set_at |-> t,
              kept_until |-> t + timeout * TicksPerSecond]]

\* cache.get(key) at time t: the entry while its timeout has not elapsed
CacheGet(entries, key, t) ==
    IF entries[key] # NoEntry /\ t < entries[key].kept_until
    THEN entries[key] ELSE NoEntry

\* _botocore_signed_url at time t: expires = utcnow() + timedelta(seconds=...)
BotocoreSignedUrl(key, expiration_seconds, t) ==
    [url |-> CloudFrontUrl(key, expiration_seconds),
     expires |-> t + expiration_seconds * TicksPerSecond]

NoSigned == [url |-> "", expires |-> 0]

\* the cache keys audio_signed_url_{audio.id}_{expiration_seconds} of one
\* audio, no call in progress, nothing returned yet
NoCache == [entries |-> [ttl \in CacheTtls |-> NoEntry],
            pc |-> "idle", expiration_seconds |-> 0, signed |-> NoSigned,
            returned |-> [url |-> "", expires |-> 0, at |-> 0, cached |-> FALSE]]

\* get_audio_signed_url(audio, expiration_seconds): the cache check; on a hit
\* the cached URL is returned, on a miss the URL is signed
SignedUrlLookup(key, ttl) ==
    /\ cfc.pc = "idle"
    /\ LET hit == CacheGet(cfc.entries, ttl, now) IN
       cfc' = IF hit # NoEntry
              THEN [cfc EXCEPT !.returned = [url |-> hit.url, expires |-> hit.expires,
                                             at |-> now, cached |-> TRUE]]
              ELSE [cfc EXCEPT !.pc = "signed",
                               !.expiration_seconds = ttl,
                               !.signed = BotocoreSignedUrl(key, ttl, now)]
    /\ UNCHANGED butCfc

\* the rest of a miss: cache.set(cache_key, signed_url, cache_timeout), return
SignedUrlStore ==
    /\ cfc.pc = "signed"
    /\ cfc' = [cfc EXCEPT
                 !.pc = "idle",
                 !.entries = CacheSet(@, cfc.expiration_seconds, cfc.signed.url,
                                      cfc.signed.expires,
                                      CacheTimeout(cfc.expiration_seconds), now),
                 !.signed = NoSigned,
                 !.expiration_seconds = 0,
                 !.returned = [url |-> cfc.signed.url, expires |-> cfc.signed.expires,
                               at |-> now, cached |-> FALSE]]
    /\ UNCHANGED butCfc

InitCore ==
    /\ db = <<>>
    /\ enabled = TRUE
    /\ maxAudios \in 1..MaxAudiosPerPage
    /\ pageLock = [p \in AllPages |-> 0]
    /\ req = [r \in Req |-> NewRequest]
    /\ task = <<>>
    /\ del = Idle
    /\ swp = Idle
    /\ env = 0

\* nothing asked yet of the operations studied in their own scenarios
InitMore ==
    /\ rty = NoRetry
    /\ exp = NoSweep
    /\ now = 0
    /\ pages = [p \in AllPages |-> <<"a">>]
    /\ cfc = NoCache

Init ==
    /\ InitCore
    /\ url = NoUrlCall
    /\ chk = NoChunkCall
    /\ mrg = NoMergeCall
    /\ site = NoSiteSettings
    /\ gen = [id \in Req |-> NoPipeline]
    /\ InitMore

\* The task treats every exception alike, so the failures of the full system
\* are Polly's throttling; SpecTask below ranges over every failure kind.
Next ==
    \/ \E r \in Req, p \in Pages, v \in Voices, a \in Actors : ReqCheck(r, p, v, a)
    \/ \E r \in Req : ReqLockAndValidate(r)
    \/ \E r \in Req : ReqInsert(r)
    \/ \E en \in BOOLEAN : SettingsControl(en)
    \/ \E id \in Ids(db) : TaskLoad(id)
    \/ \E id \in Ids(db) : TaskSaveGenerating(id)
    \/ \E id \in Ids(db) : TaskGenerateOk(id)
    \/ \E id \in Ids(db) :
          TaskGenerateFail(id, "ThrottlingException", MaxEnvEvents)
    \/ \E id \in Ids(db) : TaskFailSave(id)
    \/ \E id \in Ids(db) : DeleteLoad(id)
    \/ DeleteSave
    \/ \E id \in Ids(db) : SweepLoad(id)
    \/ SweepSave

Spec == Init /\ [][Next]_vars

\* ------------------------------------------------------ scenario: task runs
\* Reservations and their generation tasks, every failure kind at every
\* attempt, no delete, sweep or settings change.
UnlimitedFailures == NumReq * (max_retries + 1)

NextTask ==
    \/ \E r \in Req, p \in Pages, v \in Voices, a \in Actors : ReqCheck(r, p, v, a)
    \/ \E r \in Req : ReqLockAndValidate(r)
    \/ \E r \in Req : ReqInsert(r)
    \/ \E id \in Ids(db) : TaskLoad(id)
    \/ \E id \in Ids(db) : TaskSaveGenerating(id)
    \/ \E id \in Ids(db) : TaskGenerateOk(id)
    \/ \E id \in Ids(db), k \in FailureKinds :
          TaskGenerateFail(id, k, UnlimitedFailures)
    \/ \E id \in Ids(db) : TaskFailSave(id)

SpecTask == Init /\ [][NextTask]_vars

\* ------------------------------- scenario: the synthesizer always throttles
\* Every call of generate_audio fails with Polly's ThrottlingException. The
\* worker runs every queued task and every retry whose countdown has elapsed.
TaskStep(i) ==
    /\ i \in Ids(db)
    /\ \/ TaskLoad(i)
       \/ TaskSaveGenerating(i)
       \/ TaskGenerateFail(i, "ThrottlingException", UnlimitedFailures)
       \/ TaskFailSave(i)

NextThrottle ==
    \/ \E r \in Req, p \in Pages, v \in Voices, a \in Actors : ReqCheck(r, p, v, a)
    \/ \E r \in Req : ReqLockAndValidate(r)
    \/ \E r \in Req : ReqInsert(r)
    \/ \E id \in Ids(db) : TaskLoad(id)
    \/ \E id \in Ids(db) : TaskSaveGenerating(id)
    \/ \E id \in Ids(db) :
          TaskGenerateFail(id, "ThrottlingException", UnlimitedFailures)
    \/ \E id \in Ids(db) : TaskFailSave(id)

SpecThrottle ==
    Init /\ [][NextThrottle]_vars /\ \A i \in Req : WF_vars(TaskStep(i))

\* -------------------------- scenario: reservations racing for the same voice
\* Every request is the owner's, for the same page and the same voice; the
\* task of the row that gets created runs in the background.
NextRace ==
    \/ \E r \in Req, p \in Pages : ReqCheck(r, p, RaceVoice, "owner")
    \/ \E r \in Req : ReqLockAndValidate(r)
    \/ \E r \in Req : ReqInsert(r)
    \/ \E id \in Ids(db) : TaskLoad(id)
    \/ \E id \in Ids(db) : TaskSaveGenerating(id)
    \/ \E id \in Ids(db) : TaskGenerateOk(id)
    \/ \E id \in Ids(db), k \in FailureKinds : TaskGenerateFail(id, k, MaxEnvEvents)
    \/ \E id \in Ids(db) : TaskFailSave(id)

SpecRace == Init /\ [][NextRace]_vars

\* ------------------------------------------- scenario: download URL issuing
\* One call of get_presigned_url for every key, expiration argument and
\* behaviour of the two tiers.
NextUrl ==
    \/ \E key \in UrlKeys, arg \in Expirations : GetPresignedUrl(key, arg)
    \/ \E cf \in CloudFrontConditions : UrlCloudFront(cf)
    \/ \E s3 \in {"ok", "error"} : UrlS3(s3)

SpecUrl == Init /\ [][NextUrl]_vars

\* ------------------------------------------------------- scenario: chunking
\* chunk_text applied to every text of the bounded alphabet and length.
InitChunk ==
    /\ InitCore
    /\ url = NoUrlCall
    /\ mrg = NoMergeCall
    /\ site = NoSiteSettings
    /\ gen = [id \in Req |-> NoPipeline]
    /\ InitMore
    /\ chk \in {[pc |-> "called", text |-> t, chunks |-> <<>>] : t \in Texts}

NextChunk == CallChunkText

SpecChunk == InitChunk /\ [][NextChunk]_vars

\* -------------------------------------------------------- scenario: merging
\* merge_audio_chunks applied to every sequence of at most MaxChunks buffers.
InitMerge ==
    /\ InitCore
    /\ url = NoUrlCall
    /\ chk = NoChunkCall
    /\ site = NoSiteSettings
    /\ gen = [id \in Req |-> NoPipeline]
    /\ InitMore
    /\ mrg \in {[pc |-> "called", audio_chunks |-> c, result |-> MergeReturn(NoBuffer)] :
                  c \in UNION {[1..n -> Buffers] : n \in 0..MaxChunks}}

NextMerge == CallMergeAudioChunks

SpecMerge == InitMerge /\ [][NextMerge]_vars

\* ----------------------------------------------- scenario: settings singleton
\* Processes that save new SiteSettings instances and call get_settings.
NextSettings ==
    \/ \E p \in SettingsProcs : SiteSaveCheck(p)
    \/ \E p \in SettingsProcs, valid \in BOOLEAN : SiteSaveInsert(p, valid)
    \/ \E p \in SettingsProcs : SiteGetSettings(p)
    \/ \E p \in SettingsProcs : SiteGetSettingsCreate(p)

SpecSettings == Init /\ [][NextSettings]_vars

\* -------------------------------------- scenario: the generation pipeline
\* Reservations by the owner, their tasks with the pipeline of generate_audio
\* step by step, and the owner's delete_audio. Every external call succeeds.
NextGen ==
    \/ \E r \in Req, p \in Pages, v \in Voices : ReqCheck(r, p, v, "owner")
    \/ \E r \in Req : ReqLockAndValidate(r)
    \/ \E r \in Req : ReqInsert(r)
    \/ \E id \in Ids(db) : TaskLoad(id)
    \/ \E id \in Ids(db) : TaskSaveGenerating(id)
    \/ \E id \in Ids(db), text \in PageTexts : GenChunk(id, text)
    \/ \E id \in Ids(db) : GenSynthesize(id)
    \/ \E id \in Ids(db) : GenMerge(id)
    \/ \E id \in Ids(db) : GenUpload(id)
    \/ \E id \in Ids(db) : GenReturn(id)
    \/ \E id \in Ids(db) : TaskFailSave(id)
    \/ \E id \in Ids(db) : DeleteLoad(id)
    \/ DeleteSave

SpecGen == Init /\ [][NextGen]_vars

\* ------------------------------------------------ scenario: manual retries
\* The owner's reservations, their tasks with throttled attempts, and the
\* owner's retry requests for the rows.
NextRetry ==
    \/ \E r \in Req, p \in Pages, v \in Voices : ReqCheck(r, p, v, "owner")
    \/ \E r \in Req : ReqLockAndValidate(r)
    \/ \E r \in Req : ReqInsert(r)
    \/ \E id \in Ids(db) : TaskLoad(id)
    \/ \E id \in Ids(db) : TaskSaveGenerating(id)
    \/ \E id \in Ids(db) : TaskGenerateOk(id)
    \/ \E id \in Ids(db) :
          TaskGenerateFail(id, "ThrottlingException", MaxEnvEvents)
    \/ \E id \in Ids(db) : TaskFailSave(id)
    \/ \E id \in Ids(db) : RetryAudio(id)

SpecRetry == Init /\ [][NextRetry]_vars

\* ------------------------------------------------- scenario: expiry sweep
\* One run of check_expired_audios over every table of at most MaxSweepRows
\* rows, with the auto-delete setting on and off, S3 answering or failing.
InitSweep ==
    /\ InitCore
    /\ url = NoUrlCall
    /\ chk = NoChunkCall
    /\ mrg = NoMergeCall
    /\ site = NoSiteSettings
    /\ gen = [id \in Req |-> NoPipeline]
    /\ rty = NoRetry
    /\ now = 0
    /\ pages = [p \in AllPages |-> <<"a">>]
    /\ cfc = NoCache
    /\ exp \in {[NoSweep EXCEPT !.pc = "scheduled",
                                !.auto_delete_expired_enabled = a, !.rows = t] :
                  a \in BOOLEAN,
                  t \in UNION {[1..n -> SweepRows] : n \in 0..MaxSweepRows}}

NextSweep == \E s3 \in {"ok", "error"} : CheckExpiredAudios(s3)

SpecSweep == InitSweep /\ [][NextSweep]_vars

\* ------------------------------------------------- scenario: object keys
\* The owner reserves, deletes and reserves again one voice of one page; the
\* tasks run the pipeline on a one-chunk text while the clock advances, and a
\* retry starts only after its countdown.
NextKey ==
    \/ \E r \in Req, p \in Pages : ReqCheck(r, p, RaceVoice, "owner")
    \/ \E r \in Req : ReqLockAndValidate(r)
    \/ \E r \in Req : ReqInsert(r)
    \/ \E id \in Ids(db) : CountdownElapsed(id) /\ TaskLoad(id)
    \/ \E id \in Ids(db) : TaskSaveGenerating(id)
    \/ \E id \in Ids(db) : GenChunk(id, <<"a">>)
    \/ \E id \in Ids(db) : GenSynthesize(id)
    \/ \E id \in Ids(db) : GenUpload(id)
    \/ \E id \in Ids(db) : GenReturn(id)
    \/ \E id \in Ids(db) : TaskFailSave(id)
    \/ \E id \in Ids(db) : DeleteLoad(id)
    \/ DeleteSave
    \/ Tick
    \/ Wait

SpecKey == Init /\ [][NextKey]_vars

\* ------------------------------------------------ scenario: invalid input
\* Requests without a voice, with a voice that is no TTSVoice and for pages
\* whose text is empty or blank, and the tasks of the rows they create.
ValidateTexts == {<<>>, <<" ">>, <<"a">>}

InitValidate ==
    /\ InitCore
    /\ url = NoUrlCall
    /\ chk = NoChunkCall
    /\ mrg = NoMergeCall
    /\ site = NoSiteSettings
    /\ gen = [id \in Req |-> NoPipeline]
    /\ rty = NoRetry
    /\ exp = NoSweep
    /\ now = 0
    /\ cfc = NoCache
    /\ \E text \in ValidateTexts : pages = [p \in AllPages |-> text]

NextValidate ==
    \/ \E r \in Req, p \in Pages : ReqNoVoice(r, p)
    \/ \E r \in Req, p \in Pages, v \in {RaceVoice} \cup InvalidVoices :
          ReqCheck(r, p, v, "owner")
    \/ \E r \in Req : ReqLockAndValidate(r)
    \/ \E r \in Req : ReqInsert(r)
    \/ \E id \in Ids(db) : TaskLoad(id)
    \/ \E id \in Ids(db) : TaskSaveGenerating(id)
    \/ \E id \in Ids(db) : GenInvalid(id, pages[db[id].page])
    \/ \E id \in Ids(db) : GenChunk(id, pages[db[id].page])
    \/ \E id \in Ids(db) : GenSynthesize(id)
    \/ \E id \in Ids(db) : GenUpload(id)
    \/ \E id \in Ids(db) : GenReturn(id)
    \/ \E id \in Ids(db) : TaskFailSave(id)

SpecValidate == InitValidate /\ [][NextValidate]_vars

\* -------------------------------------------- scenario: signed URL caching
\* Calls of get_audio_signed_url for one completed audio with every
\* expiration, while the clock advances; a call lasts less than a minute.
NextCache ==
    \/ \E ttl \in CacheTtls : SignedUrlLookup(GenerateS3Key(1, RaceVoice, 0), ttl)
    \/ SignedUrlStore
    \/ Tick
    \/ (cfc.pc = "idle" /\ Wait)

SpecCache == Init /\ [][NextCache]_vars

\* Reservations for both pages of the document, each followed by its
\* generation task and the calls the task makes to Polly and S3.
NextLock ==
    \/ \E r \in Req, p \in AllPages : ReqCheck(r, p, RaceVoice, "owner")
    \/ \E r \in Req : ReqLockAndValidate(r)
    \/ \E r \in Req : ReqInsert(r)
    \/ \E id \in Ids(db) : TaskLoad(id)
    \/ \E id \in Ids(db) : TaskSaveGenerating(id)
    \/ \E id \in Ids(db) : GenChunk(id, pages[db[id].page])
    \/ \E id \in Ids(db) : GenSynthesize(id)
    \/ \E id \in Ids(db) : GenUpload(id)
    \/ \E id \in Ids(db) : GenReturn(id)

SpecLock == Init /\ [][NextLock]_vars

\* ------------------------------------ scenario: tasks under a fair worker
\* Reservations, soft deletes and the generation tasks, whose calls return or
\* fail with throttling. The worker runs every queued task and every due
\* retry, and a delete request that loaded its row goes on to save it.
WorkerStep(i) ==
    /\ i \in Ids(db)
    /\ \/ TaskLoad(i)
       \/ TaskSaveGenerating(i)
       \/ TaskGenerateOk(i)
       \/ TaskGenerateFail(i, "ThrottlingException", MaxEnvEvents)
       \/ TaskFailSave(i)

NextLive ==
    \/ \E r \in Req, p \in Pages : ReqCheck(r, p, RaceVoice, "owner")
    \/ \E r \in Req : ReqLockAndValidate(r)
    \/ \E r \in Req : ReqInsert(r)
    \/ \E id \in Ids(db) : TaskLoad(id)
    \/ \E id \in Ids(db) : TaskSaveGenerating(id)
    \/ \E id \in Ids(db) : TaskGenerateOk(id)
    \/ \E id \in Ids(db) :
          TaskGenerateFail(id, "ThrottlingException", MaxEnvEvents)
    \/ \E id \in Ids(db) : TaskFailSave(id)
    \/ \E id \in Ids(db) : DeleteLoad(id)
    \/ DeleteSave

SpecLive ==
    /\ Init /\ [][NextLive]_vars
    /\ \A i \in Req : WF_vars(WorkerStep(i))
    /\ WF_vars(DeleteSave)

\* ---------------------------------------------------------------- typing
Statuses == {PENDING, GENERATING, COMPLETED, FAILED}
Lifetimes == {ACTIVE, DELETED, EXPIRED}

TypeOK ==
    /\ enabled \in BOOLEAN
    /\ maxAudios \in 1..MaxAudiosPerPage
    /\ Len(db) <= NumReq
    /\ Len(task) = Len(db)
    /\ \A i \in Ids(db) : /\ db[i].status \in Statuses
                          /\ db[i].lifetime_status \in Lifetimes
                          /\ db[i].page \in AllPages
                          /\ db[i].voice \in Voices \cup InvalidVoices
                          /\ task[i].retries \in 0..max_retries
    /\ \A p \in AllPages : pageLock[p] \in Req \cup {0}
    /\ url.pc \in {"idle", "cloudfront", "s3", "returned", "raised"}
    /\ chk.pc \in {"idle", "called", "returned"}
    /\ mrg.pc \in {"idle", "called", "returned"}
    /\ site.rows \subseteq 1..MaxSettingsId
    /\ \A id \in Req : gen[id].pc \in {"idle", "rejected", "synthesize", "merge",
                                       "upload", "uploaded"}

\* ================================================================= claims
ActiveRows(p, v) ==
    {i \in Ids(db) : /\ db[i].page = p
                     /\ db[i].voice = v
                     /\ db[i].lifetime_status = ACTIVE}

RowCount(p) == Cardinality({i \in Ids(db) : db[i].page = p})

Created == {r \in Req : req[r].result = "created"}

\* the requests that passed the unlocked check and went on to the page lock
PassedCheck == {r \in Req : req[r].result \in {"created", "duplicate_locked",
                                               "duplicate_integrity",
                                               "quota_locked"}}

NoneInFlight == \A r \in Req : req[r].pc \in {"start", "done"}

\* the voice v of page p only has rows that were soft-deleted or expired
VoiceFreed(d, p, v) ==
    /\ \E i \in Ids(d) : /\ d[i].page = p
                         /\ d[i].voice = v
                         /\ d[i].lifetime_status \in {DELETED, EXPIRED}
    /\ \A i \in Ids(d) : (d[i].page = p /\ d[i].voice = v)
                            => d[i].lifetime_status # ACTIVE

\* C1: in every reachable state each (page, voice) pair has at most one Audio
\* row whose lifetime status is ACTIVE, whatever the interleaving of
\* reservations, soft deletes, expiry sweeps and generation tasks.
C1_OneActivePerVoice ==
    \A p \in Pages, v \in Voices : Cardinality(ActiveRows(p, v)) <= 1

\* a reservation was stopped by the unique index itself: its locked re-check
\* passed and a stale task save made the old row of the voice ACTIVE again
C1_Witness ==
    \E r \in Req : req[r].result = "duplicate_integrity"

\* C2: of the reservations for one page and voice that all passed the
\* unlocked check before any of them inserted, exactly one creates the row
\* and every other one fails with the duplicate-voice error; never do two
\* succeed and never do all fail.
C2_ExactlyOneWinsRace ==
    /\ Cardinality(Created) <= 1
    /\ (NoneInFlight /\ PassedCheck # {}) =>
          /\ Cardinality(Created) = 1
          /\ \A r \in PassedCheck \ Created :
                req[r].result \in {"duplicate_locked", "duplicate_integrity"}

\* two requests passed the unlocked check; one created, one lost under the lock
C2_Witness ==
    \E r1, r2 \in Req : /\ req[r1].result = "created"
                        /\ req[r2].result = "duplicate_locked"
                        /\ req[r1].voice = req[r2].voice

\* C3: the number of Audio rows of a page, every lifetime status counted,
\* never exceeds max_audios_per_page, in any interleaving of the unlocked
\* checks and the locked inserts.
C3_LifetimeQuota ==
    \A p \in Pages : RowCount(p) <= maxAudios

\* a request passed the unlocked check and lost the last slot under the lock
C3_Witness ==
    \E r \in Req : req[r].result = "quota_locked"

\* C4 as stated: a reservation checked when the page already has N rows fails
\* with the quota error, whatever the lifetime and generation status of the
\* rows.
C4_Original ==
    [][\A r \in Req :
         (/\ req[r].pc = "start"
          /\ req'[r].pc # "start"
          /\ RowCount(req'[r].page) >= maxAudios)
         => req'[r].result = "quota"]_vars

\* C4 amended: while generation is enabled, a reservation checked when the
\* page already has N rows fails with the quota error; while it is disabled
\* it fails with the disabled error. In both cases no row is created.
C4_QuotaAfterNReservations ==
    [][\A r \in Req :
         (/\ req[r].pc = "start"
          /\ req'[r].pc # "start"
          /\ RowCount(req'[r].page) >= maxAudios)
         => /\ req'[r].result = (IF enabled THEN "quota" ELSE "disabled")
            /\ db' = db]_vars

\* a reservation was refused for quota although no row of the page is ACTIVE
C4_Witness ==
    \E r \in Req : /\ req[r].result = "quota"
                   /\ \A i \in Ids(db) : db[i].lifetime_status # ACTIVE
                   /\ \E i \in Ids(db) : db[i].status # COMPLETED

AllowedTransitions ==
    {<<PENDING, GENERATING>>, <<GENERATING, COMPLETED>>,
     <<GENERATING, FAILED>>, <<FAILED, PENDING>>}

C6_StatusTransitions ==
    [][\A i \in Ids(db) :
         db'[i].status # db[i].status
         => <<db[i].status, db'[i].status>> \in AllowedTransitions]_vars

\* C7: when every attempt is throttled, the task of a dispatched row comes to
\* rest after exactly 3 retries, scheduled with the countdowns 60, 120 and
\* 240 seconds, and the row's status is then FAILED.
ThrottledRunOver(i) ==
    /\ i \in Ids(db)
    /\ task[i].pc = "done"
    /\ task[i].retries = 3
    /\ task[i].delays = <<60, 120, 240>>
    /\ db[i].status = FAILED

NonRetryableKinds == {"InvalidParameterValue", "AccessDenied",
                      "NoCredentialsError", "MergeDecode"}

\* C8: a failure of a non-retryable class ends the generation at once: the
\* handler stores FAILED and the task is not queued again.
C8_NonRetryableNotRetried ==
    [][\A i \in Ids(db) :
         (/\ task[i].pc = "failloaded"
          /\ task[i].exc \in NonRetryableKinds
          /\ task'[i].pc # "failloaded")
         => /\ task'[i].pc = "done"
            /\ db'[i].status = FAILED]_vars

\* C9: the error_message of a FAILED row is one of the fixed user-safe
\* messages, never the text of the underlying exception.
C9_ErrorMessageSanitized ==
    \A i \in Ids(db) :
       db[i].status = FAILED => db[i].error_message \in UserSafeMessages

\* C10: a write of generate_audio_task to a row that is soft-deleted leaves
\* its lifetime status DELETED and its deleted timestamp set.
C10_SoftDeleteSurvivesTask ==
    [][\A i \in Ids(db) :
         (/\ db[i].lifetime_status = DELETED
          /\ db[i].deleted_at
          /\ task'[i] # task[i])
         => /\ db'[i].lifetime_status = DELETED
            /\ db'[i].deleted_at]_vars

\* the CloudFront step of the call ended with the signing error
SigningFailed == url.cf_result.raised = "CloudFrontSigningError"

\* C11: get_presigned_url attempts the CloudFront signed URL first; the S3
\* presign is called if and only if the CloudFront step failed with the
\* signing error, at most once, for the same key and with the same
\* expiration; when it succeeds its URL is the one returned; when CloudFront
\* succeeds its URL is returned and the S3 presign is never called.
C11_CloudFrontFirstThenS3 ==
    /\ url.pc # "idle" /\ url.pc # "cloudfront" => Len(url.cloudfront) = 1
    /\ url.s3 # <<>> => /\ Len(url.cloudfront) = 1
                        /\ SigningFailed
                        /\ Len(url.s3) = 1
                        /\ url.s3[1] = url.cloudfront[1]
                        /\ url.s3[1].expires = url.expiration
    /\ (url.pc \in {"returned", "raised"} /\ SigningFailed) => Len(url.s3) = 1
    /\ (url.pc = "returned" /\ url.s3 # <<>> /\ url.s3_result.raised = "None")
          => url.result = Return(S3Url(url.key, url.expiration))
    /\ (url.pc \in {"returned", "raised"} /\ Len(url.cloudfront) = 1
          /\ url.cf_result.raised = "None")
          => /\ url.s3 = <<>>
             /\ url.result = url.cf_result

\* CloudFront failed with the signing error and the S3 URL was returned
C11_Witness ==
    /\ url.pc = "returned"
    /\ SigningFailed
    /\ url.result = Return(S3Url(url.key, url.expiration))
    /\ url.arg = NoExpiration

\* both tiers of the call failed, or CloudFront failed and S3 was not tried
BothTiersFailed ==
    /\ url.cf_result.raised # "None"
    /\ url.s3 # <<>> => url.s3_result.raised # "None"

\* C12: get_presigned_url never raises to its caller: whatever fails in the
\* CloudFront tier and in the S3 fallback it returns a URL or None, and it
\* returns None when both tiers fail.
C12_NeverRaises ==
    /\ url.pc # "raised"
    /\ url.pc = "returned" =>
          /\ url.result.raised = "None"
          /\ url.result.value \in
                {"None", CloudFrontUrl(url.key, url.expiration),
                 S3Url(url.key, url.expiration)}
          /\ BothTiersFailed => url.result = Return("None")

\* the signing error, then an S3 client error: the caller received None
C12_Witness ==
    /\ url.pc = "returned"
    /\ SigningFailed
    /\ url.s3_result.raised = "ClientError"
    /\ url.result = Return("None")

\* the chunks joined in order with the separator, a single space
RECURSIVE JoinChunks(_)
JoinChunks(chunks) ==
    IF chunks = <<>> THEN <<>>
    ELSE IF Len(chunks) = 1 THEN chunks[1]
    ELSE chunks[1] \o <<" ">> \o JoinChunks(Tail(chunks))

\* whitespace normalization at its most lenient: all whitespace is ignored
WithoutWhitespace(t) == SelectSeq(t, LAMBDA c : c # " ")

\* C13: every chunk returned by chunk_text has length at most
\* MAX_CHARS_PER_REQUEST, also for a sentence of exactly or nearly that
\* length and for a whitespace-free token longer than it.
C13_ChunksWithinLimit ==
    chk.pc = "returned" =>
       \A i \in 1..Len(chk.chunks) : Len(chk.chunks[i]) <= MAX_CHARS_PER_REQUEST

\* C14: the chunks returned by chunk_text, joined in order with a single
\* space, reconstruct the text up to whitespace: nothing is dropped, altered,
\* added or moved.
C14_ChunksReconstructText ==
    chk.pc = "returned" =>
       WithoutWhitespace(JoinChunks(chk.chunks)) = WithoutWhitespace(chk.text)

\* C15: merge_audio_chunks given exactly one buffer returns that buffer
\* unchanged, without decoding or re-encoding it, and given no buffer it
\* fails with an error instead of returning audio.
C15_MergeSingleAndEmpty ==
    mrg.pc = "returned" =>
       /\ Len(mrg.audio_chunks) = 1 => mrg.result = MergeReturn(mrg.audio_chunks[1])
       /\ mrg.audio_chunks = <<>> => /\ mrg.result.raised = "AudioGenerationError"
                                     /\ mrg.result.value = NoBuffer

\* a single buffer that is not even MP3 data came back as it was
C15_Witness ==
    /\ mrg.pc = "returned"
    /\ Len(mrg.audio_chunks) = 1
    /\ mrg.audio_chunks[1].encoder = "corrupt"
    /\ mrg.result.value = mrg.audio_chunks[1]

\* C16: in every reachable state at most one SiteSettings row exists,
\* whatever creates rows (save of a new instance, get_settings) and whatever
\* primary key the existing row has.
C16_SettingsSingleton ==
    Cardinality(site.rows) <= 1

\* the indices 1..n in order
RECURSIVE UpTo(_)
UpTo(n) == IF n = 0 THEN <<>> ELSE Append(UpTo(n - 1), n)

\* the calls the claim describes for n chunks and the object key
ExpectedCalls(n, key) ==
    [i \in 1..n |-> [op |-> "synthesize_speech", chunks |-> <<i>>, key |-> ""]]
      \o (IF n > 1
          THEN <<[op |-> "merge_audio_chunks", chunks |-> UpTo(n), key |-> ""]>>
          ELSE <<>>)
      \o <<[op |-> "upload_to_s3", chunks |-> UpTo(n), key |-> key]>>

IsPrefix(a, b) == Len(a) <= Len(b) /\ a = SubSeq(b, 1, Len(a))

\* the calls made so far by the pipeline of row id are the first ones of the
\* expected sequence, all of it once the upload is done
CallsInOrder(id) ==
    LET g == gen[id]
        want == ExpectedCalls(Len(g.text_chunks), g.s3_key) IN
    g.pc # "idle" => /\ IsPrefix(g.calls, want)
                     /\ g.pc = "uploaded" => g.calls = want

\* the call order holds for the pipeline of every row
CallsInOrderAlways == \A id \in Ids(db) : CallsInOrder(id)

\* C17: a generation run in which every external call succeeds calls the
\* synthesizer once per chunk in chunk order, calls merge once if and only if
\* there is more than one chunk, with the buffers in chunk order, uploads once
\* after that, and ends with status COMPLETED and a non-empty s3_key.
C17_PipelineOrderAndCompletion ==
    /\ []CallsInOrderAlways
    /\ [][\A id \in Ids(db) :
            (/\ task[id].pc = "generating"
             /\ gen[id].pc = "uploaded"
             /\ task'[id].pc # "generating")
            => /\ db'[id].status = COMPLETED
               /\ db'[id].s3_key # ""]_vars

\* the requests that become successful reservations in the step
BecomeCreated ==
    {r \in Req : req[r].result # "created" /\ req'[r].result = "created"}

BecomeRejected ==
    {r \in Req : /\ req[r].pc # "done"
                 /\ req'[r].pc = "done"
                 /\ req'[r].result # "created"}

\* C19: a reservation rejected for any reason (generation disabled, quota
\* reached, duplicate active voice, missing permission) creates no Audio row,
\* changes no existing row and enqueues no generation task.
C19_RejectionChangesNothing ==
    [][BecomeRejected # {} => (db' = db /\ task' = task)]_vars

\* a reservation was rejected while the page had rows and tasks
C19_Witness ==
    \E r \in Req : /\ req[r].result \in {"disabled", "quota", "duplicate",
                                         "no_permission", "no_access",
                                         "duplicate_locked", "quota_locked"}
                   /\ db # <<>>
                   /\ task # <<>>

\* C20: every reservation rejected for quota, duplicate voice or permission,
\* also one detected only under the page lock in a race, is answered with
\* its specific reason in a 400-class response, never with the generic 500.
C20_RejectionsAnsweredSpecifically ==
    \A r \in Req :
       req[r].result \in {"quota", "duplicate", "no_permission", "no_access",
                          "duplicate_locked", "quota_locked",
                          "duplicate_integrity"}
       => req[r].http \in {400, 403, 429}

\* C21: a manual retry is accepted only for a row in status FAILED: it sets
\* the status to PENDING, clears the error message and enqueues exactly one
\* generation task for that row, creating no row; a retry request for a row
\* in any other status is rejected and changes nothing.
C21_ManualRetry ==
    [][\A id \in Ids(db) :
         (rty'.n = rty.n + 1 /\ rty'.id = id)
         => IF db[id].status = FAILED
            THEN /\ rty'.http = 200
                 /\ Len(db') = Len(db)
                 /\ db'[id].status = PENDING
                 /\ db'[id].error_message = "None"
                 /\ task'[id].pc = "queued"
            ELSE /\ rty'.http >= 400
                 /\ db' = db
                 /\ task' = task]_vars

\* the run of check_expired_audios happens in the step
SweepRuns == exp.pc = "scheduled" /\ exp'.pc = "done"

\* C22: an expiry sweep marks EXPIRED every ACTIVE row whose reference time
\* (last-played time, or creation time if never played) is older than the
\* retention period, whatever the row's generation status, and leaves ACTIVE
\* every row whose reference time is within the retention period.
C22_SweepExpiresOldActiveRows ==
    [][SweepRuns =>
         \A i \in 1..Len(exp.rows) :
            exp.rows[i].lifetime_status = ACTIVE
            => exp'.rows[i].lifetime_status =
                  (IF IsExpired(exp.rows[i], SweepNow) THEN EXPIRED ELSE ACTIVE)]_vars

\* C23: when auto_delete_expired_enabled is false, check_expired_audios
\* leaves the lifetime status of every row unchanged, also for rows past the
\* retention period.
C23_SweepRespectsSetting ==
    [][(SweepRuns /\ ~exp.auto_delete_expired_enabled) =>
         \A i \in 1..Len(exp.rows) :
            exp'.rows[i].lifetime_status = exp.rows[i].lifetime_status]_vars

\* the automatic retries of the task of row i are used up
RetryBudgetExhausted(i) ==
    task[i].pc = "done" /\ task[i].retries = max_retries

\* C24: a transient failure is not visible to the user while automatic
\* retries remain: the status endpoint shows FAILED with an error message
\* only after the retry budget of the task is exhausted, never between two
\* attempts.
C24_TransientFailureHidden ==
    \A i \in Ids(db) :
       (/\ AudioStatus(db, i).status = FAILED
        /\ AudioStatus(db, i).error_message # "None")
       => RetryBudgetExhausted(i)

\* C25: chunk_text returns exactly one chunk for a text of exactly
\* MAX_CHARS_PER_REQUEST characters and at least two chunks for every text of
\* MAX_CHARS_PER_REQUEST + 1 characters.
C25_ChunkCountAtLimit ==
    chk.pc = "returned" =>
       /\ Len(chk.text) = MAX_CHARS_PER_REQUEST => Len(chk.chunks) = 1
       /\ Len(chk.text) = MAX_CHARS_PER_REQUEST + 1 => Len(chk.chunks) >= 2

\* the attempts that reached generate_s3_key: row and position in its attempts
KeyedAttempts ==
    {a \in Ids(db) \X (1..(max_retries + 1)) : a[2] <= Len(gen[a[1]].s3_keys)}

\* C26: the S3 keys produced by generate_s3_key for two different generation
\* attempts are always different, including an automatic retry of the same
\* row and a regeneration of the same document, page and voice after the
\* earlier row was soft-deleted or expired.
C26_KeysUnique ==
    \A a, b \in KeyedAttempts :
       a # b => gen[a[1]].s3_keys[a[2]] # gen[b[1]].s3_keys[b[2]]

\* the input of request r cannot be generated: no voice, a voice outside the
\* enumeration, or a page whose text is empty or blank
InvalidInput(r) ==
    \/ req[r].voice \notin TTSVoice
    \/ IsBlank(pages[req[r].page])

\* C27: a generation request whose text is empty or whitespace-only, or whose
\* voice is not in the TTSVoice enumeration, is rejected synchronously by the
\* request, before any call to the speech provider or the object store.
C27_InvalidInputRejectedByRequest ==
    \A r \in Req :
       (req[r].pc = "done" /\ InvalidInput(r))
       => /\ req[r].result # "created"
          /\ req[r].audio \in Ids(db) => gen[req[r].audio].calls = <<>>

\* C28: a signed URL that get_audio_signed_url returns from its cache is
\* never expired: an entry created for expiration ttl is kept for ttl - 60
\* seconds, so for every ttl (including ttl <= 60) any cached URL that is
\* returned still has time left before its embedded expiry.
C28_CachedUrlNotExpired ==
    /\ \A ttl \in CacheTtls :
          cfc.entries[ttl] # NoEntry
          => /\ ttl > 60
             /\ cfc.entries[ttl].kept_until =
                   cfc.entries[ttl].set_at + (ttl - 60) * TicksPerSecond
    /\ cfc.returned.cached => cfc.returned.at < cfc.returned.expires

\* a URL came out of the cache a minute after it was signed
C28_Witness ==
    /\ cfc.returned.cached
    /\ cfc.returned.at >= 60 * TicksPerSecond
    /\ cfc.returned.expires - cfc.returned.at < 120 * TicksPerSecond

\* the rows whose task is between the start of generate_audio and its return,
\* where the calls to the speech provider and the object store are made
InExternalCalls == {id \in Ids(db) : gen[id].pc \in {"synthesize", "merge", "upload"}}

\* C29: the page-row lock taken by create_audio_record is held only for the
\* re-check and the insert, never while a speech-provider or object-store
\* call is in progress for the holder, and reservations for two different
\* pages never wait on each other: a reservation whose own page row is not
\* locked can always go on, whatever the locks on other pages.
C29_LockShortAndPerPage ==
    /\ \A p \in AllPages :
          pageLock[p] # 0
          => /\ req[pageLock[p]].pc = "validated"
             /\ req[pageLock[p]].page = p
             /\ req[pageLock[p]].audio \notin InExternalCalls
    /\ \A r \in Req :
          (req[r].pc = "allowed" /\ pageLock[req[r].page] = 0)
          => ENABLED ReqLockAndValidate(r)

\* two reservations hold the locks of the two pages at the same time
C29_Witness ==
    /\ pageLock[1] # 0
    /\ pageLock[2] # 0
    /\ pageLock[1] # pageLock[2]

\* the task of row i and all its automatic retries are over
TaskFinished(i) == task[i].pc \in {"done", "crashed"}

\* C30: every Audio row for which a generation task was dispatched ends with
\* status COMPLETED or FAILED once the task and its automatic retries have
\* finished, and keeps it: no row is left PENDING or GENERATING, also when
\* the row is soft-deleted or its voice is re-reserved while the task runs.
C30_FinishedTaskLeavesFinalStatus ==
    \A i \in Ids(db) : TaskFinished(i) => db[i].status \in {COMPLETED, FAILED}

====
